---- MODULE Spec2Model ----
(***************************************************************************)
(* Model of the tensor notebooks of learningPytorch.                      *)
(*                                                                         *)
(* The notebooks (src/Tensors.ipynb, src/examples/ImageNormalisation.ipynb)*)
(* are straight-line cells that call the tensor library.  The state of the *)
(* running kernel is modelled as                                           *)
(*   heap : the storages allocated so far (flat element buffers),          *)
(*   env  : the kernel namespace, name -> array handle                     *)
(*          (storage id, shape, strides, offset, dtype, kind),             *)
(*   pc   : the statement the kernel executes next,                        *)
(*   mps  : the answer of torch.mps.is_available() in this process,        *)
(*   err  : the error raised by the last call ("none" when it returned),   *)
(*   ret  : the value the last call returned,                              *)
(*   old  : the heap as it was before the last library call,               *)
(*   calls: the library calls made so far in an operation-level session.   *)
(* Every library call the cells make is an operator over heap and handles, *)
(* computed as the library computes it (views share the storage id, fresh  *)
(* results allocate a new storage).  Elements are fixed-point numbers with *)
(* denominator RandDen: 1.0 is RandDen, a sample of rand() is 0..RandDen-1.*)
(***************************************************************************)
EXTENDS Integers, Sequences, FiniteSets, TLC

VARIABLES heap, env, pc, mps, err, ret, old, calls

vars == <<heap, env, pc, mps, err, ret, old, calls>>

(* ------------------------------ bounds --------------------------------- *)

\* resolution of the element values: v stands for v / RandDen
RandDen == 2

\* side of an image of the minibatch (28 in the notebook)
ImgSide == 2

\* largest scalar added by an in-place add in the operation-level sessions
MaxAdd == 5

\* number of library calls of an operation-level session
MaxCalls == 2

\* width of the hidden layers of the network (512 in the notebook)
Hidden == 2

(* ----------------------------- arithmetic ------------------------------ *)

One == RandDen

Fx(k) == k * RandDen

FMul(a, b) == (a * b) \div RandDen

RECURSIVE Prod(_)
Prod(s) == IF s = <<>> THEN 1 ELSE Head(s) * Prod(Tail(s))

RECURSIVE SumSeq(_)
SumSeq(s) == IF s = <<>> THEN 0 ELSE Head(s) + SumSeq(Tail(s))

Numel(h) == Prod(h.shape)

Rank(h) == Len(h.shape)

\* row-major strides of a freshly allocated array of this shape
ContigStrides(shape) ==
    [i \in 1..Len(shape) |-> Prod(SubSeq(shape, i + 1, Len(shape)))]

\* the index tuple (0-based) of the L-th element (0-based) in row-major order
Unravel(L, shape) ==
    LET cs == ContigStrides(shape)
    IN  [i \in 1..Len(shape) |-> (L \div cs[i]) % shape[i]]

\* storage position (0-based) of the element at index tuple idx
Pos(h, idx) ==
    h.offset + SumSeq([i \in 1..Len(idx) |-> idx[i] * h.strides[i]])

\* the storage positions a handle addresses
PosSet(h) == {Pos(h, Unravel(L, h.shape)) : L \in 0..(Numel(h) - 1)}

\* the elements of an array in logical (row-major) order
Flat(hp, h) ==
    [L \in 1..Numel(h) |-> hp[h.st].data[Pos(h, Unravel(L - 1, h.shape)) + 1]]

\* element [i][j] (0-based) of a 2-D array
At2(hp, h, i, j) == hp[h.st].data[Pos(h, <<i, j>>) + 1]

\* is_contiguous(): the strides are the row-major ones (any base offset)
IsContiguous(h) == h.strides = ContigStrides(h.shape)

\* non-overlapping and dense: the handle addresses a gap-free block
IsDense(h) ==
    /\ Cardinality(PosSet(h)) = Numel(h)
    /\ PosSet(h) = {h.offset + p : p \in 0..(Numel(h) - 1)}

(* ------------------------------ handles -------------------------------- *)

NoArr == [kind |-> "none"]

IsArr(x) == x.kind \in {"tensor", "ndarray"}

Arr(st, shape, strides, offset, dtype, kind) ==
    [kind |-> kind, st |-> st, shape |-> shape, strides |-> strides,
     offset |-> offset, dtype |-> dtype]

\* allocation of a fresh storage holding data on device dev
Alloc(hp, data, dev) == Append(hp, [data |-> data, dev |-> dev, live |-> TRUE])

\* result of a call: the heap after it, the array (or scalar) returned, error
\* (the exceptions the library raises are named by kind: ShapeError,
\* BroadcastError, DeviceError, ValueError, IndexError; "none" on return)
Ret(hp, arr, e) == [heap |-> hp, arr |-> arr, err |-> e]

Fresh(hp, shape, data, dtype, dev, kind) ==
    Ret(Alloc(hp, data, dev),
        Arr(Len(hp) + 1, shape, ContigStrides(shape), 0, dtype, kind),
        "none")

\* reference count that misses the buffers NumPy arrays hold
RefsOfTensors(e) ==
    {e[x].st : x \in {y \in DOMAIN e : e[y].kind = "tensor"}}

\* storages referenced by some name of the namespace
Refs(e) == {e[x].st : x \in {y \in DOMAIN e : IsArr(e[y])}}

\* reference counting: a storage no handle references is released at once
Collect(hp, e) ==
    [i \in 1..Len(hp) |->
        IF i \in Refs(e) THEN hp[i]
        ELSE [data |-> <<>>, dev |-> hp[i].dev, live |-> FALSE]]

\* WriteAt taking the 0-based positions for 1-based ones (writes one
\* element too early)
WriteAtOffByOne(hp, st, ps, f) ==
    [hp EXCEPT ![st].data =
        [p \in 1..Len(hp[st].data) |->
            IF p \in ps THEN f[p] ELSE hp[st].data[p]]]

\* the storage st with every addressed position p rewritten to f[p]
WriteAt(hp, st, ps, f) ==
    [hp EXCEPT ![st].data =
        [p \in 1..Len(hp[st].data) |->
            IF (p - 1) \in ps THEN f[p - 1] ELSE hp[st].data[p]]]

\* the logical index (0-based) of the element a handle keeps at position p
LogicalOf(h, p) ==
    CHOOSE L \in 0..(Numel(h) - 1) : Pos(h, Unravel(L, h.shape)) = p

(* ---------------------------- construction ----------------------------- *)

Fill(shape, v) == [i \in 1..Prod(shape) |-> v]

\* ones() that hands out an existing storage already holding these elements
OnesCached(hp, shape, dtype, dev) ==
    LET same == {i \in 1..Len(hp) :
                    hp[i].live /\ hp[i].dev = dev
                    /\ hp[i].data = [k \in 1..Prod(shape) |-> One]}
    IN  IF same # {}
        THEN Ret(hp, Arr(CHOOSE i \in same : TRUE, shape,
                         ContigStrides(shape), 0, dtype, "tensor"), "none")
        ELSE Ret(Alloc(hp, [k \in 1..Prod(shape) |-> One], dev),
                 Arr(Len(hp) + 1, shape, ContigStrides(shape), 0, dtype,
                     "tensor"), "none")

\* torch.ones(shape): fresh storage, every element 1
Ones(hp, shape, dtype, dev) ==
    Fresh(hp, shape, Fill(shape, One), dtype, dev, "tensor")

\* torch.zeros(shape): fresh storage, every element 0
Zeros(hp, shape, dtype, dev) ==
    Fresh(hp, shape, Fill(shape, 0), dtype, dev, "tensor")

\* the i-th sample of a generator started at s, a value of [0, 1)
RandElem(s, i) == (s + (i * (i + 1)) \div 2) % RandDen

Seeds == 0..(RandDen - 1)

\* torch.rand(shape): fresh storage of samples of [0, 1)
Rand(hp, shape, dtype, dev, s) ==
    Fresh(hp, shape, [i \in 1..Prod(shape) |-> RandElem(s, i)], dtype, dev,
          "tensor")

\* torch.tensor(rows) / np.array(rows) on a nested list of integers
FromNested(hp, rows, kind) ==
    IF \E i \in 1..Len(rows) : Len(rows[i]) # Len(rows[1])
    THEN Ret(hp, NoArr, "ShapeError")
    ELSE LET cols == Len(rows[1])
         IN  Fresh(hp, <<Len(rows), cols>>,
                   [L \in 1..(Len(rows) * cols) |->
                       Fx(rows[((L - 1) \div cols) + 1][((L - 1) % cols) + 1])],
                   "i64", "cpu", kind)

\* torch.ones_like(x): shape, dtype and device of x
OnesLike(hp, x) == Ones(hp, x.shape, x.dtype, hp[x.st].dev)

\* torch.rand_like(x, dtype=...): shape and device of x
RandLike(hp, x, dtype, s) == Rand(hp, x.shape, dtype, hp[x.st].dev, s)

(* ------------------------- indexing and slicing ------------------------ *)

All == [k |-> "all"]

Ell == [k |-> "ellipsis"]

Ix(i) == [k |-> "int", i |-> i]

\* Expand keeping the missing dimensions whole in front of the selector
\* instead of behind it
ExpandPadsLeft(sel, rank) ==
    IF \E i \in 1..Len(sel) : sel[i].k = "ellipsis"
    THEN LET e == CHOOSE i \in 1..Len(sel) : sel[i].k = "ellipsis"
         IN  SubSeq(sel, 1, e - 1)
             \o [i \in 1..(rank - (Len(sel) - 1)) |-> All]
             \o SubSeq(sel, e + 1, Len(sel))
    ELSE [i \in 1..(rank - Len(sel)) |-> All] \o sel

\* the selector with the ellipsis expanded and missing dimensions kept whole
Expand(sel, rank) ==
    IF \E i \in 1..Len(sel) : sel[i].k = "ellipsis"
    THEN LET e == CHOOSE i \in 1..Len(sel) : sel[i].k = "ellipsis"
         IN  SubSeq(sel, 1, e - 1)
             \o [i \in 1..(rank - (Len(sel) - 1)) |-> All]
             \o SubSeq(sel, e + 1, Len(sel))
    ELSE sel \o [i \in 1..(rank - Len(sel)) |-> All]

\* x[sel]: a view over the storage of x; an integer drops its dimension and
\* a negative integer counts from the end
Index(h, sel) ==
    LET full == Expand(sel, Rank(h))
        norm(i) == IF full[i].i < 0 THEN full[i].i + h.shape[i] ELSE full[i].i
        ints == {i \in 1..Rank(h) : full[i].k = "int"}
        keep == SelectSeq([i \in 1..Rank(h) |-> i],
                          LAMBDA i : full[i].k = "all")
    IN  IF Len(full) # Rank(h)
           \/ \E i \in ints : norm(i) < 0 \/ norm(i) >= h.shape[i]
        THEN [arr |-> NoArr, err |-> "IndexError"]
        ELSE [arr |-> Arr(h.st,
                          [j \in 1..Len(keep) |-> h.shape[keep[j]]],
                          [j \in 1..Len(keep) |-> h.strides[keep[j]]],
                          h.offset + SumSeq([i \in 1..Rank(h) |->
                              IF i \in ints THEN norm(i) * h.strides[i] ELSE 0]),
                          h.dtype, h.kind),
              err |-> "none"]

RECURSIVE StripOnes(_)
\* a value's shape without its leading dimensions of size 1
StripOnes(s) ==
    IF s # <<>> /\ Head(s) = 1 THEN StripOnes(Tail(s)) ELSE s

\* vs can be stretched to ts: compared from the last dimension backwards,
\* each dimension of vs is 1 or the size ts has there
Broadcastable(vs, ts) ==
    /\ Len(vs) <= Len(ts)
    /\ \A j \in 1..Len(vs) :
           vs[j] = 1 \/ vs[j] = ts[j + Len(ts) - Len(vs)]

\* the element of a value of shape vs (row-major data vd) that lands on the
\* index tuple idx of a region of rank Len(idx)
BroadcastElem(vs, vd, idx) ==
    LET d == Len(idx) - Len(vs)
        cs == ContigStrides(vs)
    IN  vd[SumSeq([j \in 1..Len(vs) |->
               IF vs[j] = 1 THEN 0 ELSE idx[j + d] * cs[j]]) + 1]

Scalar(v) == [kind |-> "scalar", val |-> v]

\* x[sel] = v: writes through the view x[sel] into the storage of x
SetItem(hp, h, sel, v) ==
    LET ix == Index(h, sel)
        sub == ix.arr
    IN  IF ix.err # "none" THEN Ret(hp, NoArr, ix.err)
        ELSE IF v.kind = "scalar"
        THEN Ret(WriteAt(hp, h.st, PosSet(sub),
                         [p \in PosSet(sub) |-> v.val]), NoArr, "none")
        ELSE LET vs == StripOnes(v.shape)
                 vd == Flat(hp, v)
             IN  IF ~Broadcastable(vs, sub.shape)
                 THEN Ret(hp, NoArr, "BroadcastError")
                 ELSE Ret(WriteAt(hp, h.st, PosSet(sub),
                          [p \in PosSet(sub) |->
                              BroadcastElem(vs, vd,
                                  Unravel(LogicalOf(sub, p), sub.shape))]),
                          NoArr, "none")

(* --------------------------- joining, views ---------------------------- *)

Reverse(s) == [i \in 1..Len(s) |-> s[Len(s) + 1 - i]]

\* Transpose that reverses the shape and lays the strides out row-major
\* (a reshape in place of a transposition)
TransposeAsReshape(h) ==
    [h EXCEPT !.shape = Reverse(h.shape),
              !.strides = ContigStrides(Reverse(h.shape))]

\* x.T: a view with shape and strides reversed
Transpose(h) ==
    [h EXCEPT !.shape = Reverse(h.shape), !.strides = Reverse(h.strides)]

\* Reshape that only ever makes a view (x.view(s2)): refuses an array that
\* is not laid out row-major
ReshapeAsView(hp, h, s2) ==
    IF Prod(s2) # Numel(h) \/ ~IsContiguous(h) THEN Ret(hp, NoArr, "ShapeError")
    ELSE Ret(hp, Arr(h.st, s2, ContigStrides(s2), h.offset, h.dtype, h.kind),
             "none")

\* torch.reshape(x, s2): a view when x is laid out row-major, otherwise a
\* row-major copy; fails only when the element counts differ
Reshape(hp, h, s2) ==
    IF Prod(s2) # Numel(h) THEN Ret(hp, NoArr, "ShapeError")
    ELSE IF IsContiguous(h)
    THEN Ret(hp, Arr(h.st, s2, ContigStrides(s2), h.offset, h.dtype, h.kind),
             "none")
    ELSE Fresh(hp, s2, Flat(hp, h), h.dtype, hp[h.st].dev, h.kind)

\* nn.Flatten() (start_dim=1, end_dim=-1): keeps dimension 0
Flatten(hp, h) == Reshape(hp, h, <<h.shape[1], Prod(Tail(h.shape))>>)

RECURSIVE CatPickMirrored(_, _, _, _)
\* CatPick that counts the index inside the input from its far end
CatPickMirrored(hs, dim, j, c) ==
    IF c < hs[j].shape[dim] THEN <<j, hs[j].shape[dim] - 1 - c>>
    ELSE CatPickMirrored(hs, dim, j + 1, c - hs[j].shape[dim])

RECURSIVE CatPick(_, _, _, _)
\* the input (and the index inside it) holding index c of the joined dimension
CatPick(hs, dim, j, c) ==
    IF c < hs[j].shape[dim] THEN <<j, c>>
    ELSE CatPick(hs, dim, j + 1, c - hs[j].shape[dim])

\* torch.cat(hs, dim): fresh storage, sizes along dim summed, inputs in order
\* (dim is 1-based here: dim=1 of the notebook is the second dimension, 2)
Cat(hp, hs, dim) ==
    IF \E j \in 1..Len(hs) :
           \/ Rank(hs[j]) # Rank(hs[1])
           \/ hs[j].dtype # hs[1].dtype
           \/ \E d \in 1..Rank(hs[1]) : d # dim /\ hs[j].shape[d] # hs[1].shape[d]
    THEN Ret(hp, NoArr, "ShapeError")
    ELSE LET rs == [hs[1].shape EXCEPT
                       ![dim] = SumSeq([j \in 1..Len(hs) |-> hs[j].shape[dim]])]
             elem(L) ==
                 LET idx == Unravel(L, rs)
                     pk == CatPick(hs, dim, 1, idx[dim])
                     src == hs[pk[1]]
                 IN  hp[src.st].data[Pos(src, [idx EXCEPT ![dim] = pk[2]]) + 1]
         IN  Fresh(hp, rs, [L \in 1..Prod(rs) |-> elem(L - 1)], hs[1].dtype,
                   hp[hs[1].st].dev, "tensor")

(* ------------------ elementwise and matrix operations ------------------ *)

\* the values of a @ b for 2-D a, b, in row-major order
MatmulData(hp, a, b) ==
    [L \in 1..(a.shape[1] * b.shape[2]) |->
        LET i == (L - 1) \div b.shape[2]
            j == (L - 1) % b.shape[2]
        IN  SumSeq([k \in 1..a.shape[2] |->
                FMul(At2(hp, a, i, k - 1), At2(hp, b, k - 1, j))])]

\* a @ b, a.matmul(b): fresh storage of shape (rows of a, columns of b)
Matmul(hp, a, b) ==
    IF a.shape[2] # b.shape[1] THEN Ret(hp, NoArr, "ShapeError")
    ELSE Fresh(hp, <<a.shape[1], b.shape[2]>>, MatmulData(hp, a, b), a.dtype,
               hp[a.st].dev, "tensor")

\* WriteOut that adds the result to what the destination held
WriteOutAccumulates(hp, out, data) ==
    WriteAt(hp, out.st, PosSet(out),
            [p \in PosSet(out) |->
                hp[out.st].data[p + 1] + data[LogicalOf(out, p) + 1]])

\* the values written through handle out, given the row-major result data
WriteOut(hp, out, data) ==
    WriteAt(hp, out.st, PosSet(out),
            [p \in PosSet(out) |-> data[LogicalOf(out, p) + 1]])

\* torch.matmul(a, b, out=o): writes into the storage of o and returns o
\* (the cells pass a destination made by rand_like of the result)
MatmulOut(hp, a, b, o) ==
    IF a.shape[2] # b.shape[1] \/ o.shape # <<a.shape[1], b.shape[2]>>
    THEN Ret(hp, NoArr, "ShapeError")
    ELSE Ret(WriteOut(hp, o, MatmulData(hp, a, b)), o, "none")

\* the values of a * b for a, b of one shape (the cells multiply an array
\* with itself)
MulData(hp, a, b) ==
    LET fa == Flat(hp, a)
        fb == Flat(hp, b)
    IN  [L \in 1..Numel(a) |-> FMul(fa[L], fb[L])]

\* the in-place product (a.mul_(b)): written into the storage of a
MulAliasing(hp, a, b) ==
    IF a.shape # b.shape THEN Ret(hp, NoArr, "ShapeError")
    ELSE Ret(WriteAt(hp, a.st, PosSet(a),
                     [p \in PosSet(a) |->
                         FMul(hp[a.st].data[p + 1],
                              Flat(hp, b)[LogicalOf(a, p) + 1])]), a, "none")

\* a * b, a.mul(b): fresh storage
Mul(hp, a, b) ==
    IF a.shape # b.shape THEN Ret(hp, NoArr, "ShapeError")
    ELSE Fresh(hp, a.shape, MulData(hp, a, b), a.dtype, hp[a.st].dev,
               "tensor")

\* torch.mul(a, b, out=o): writes into the storage of o and returns o
MulOut(hp, a, b, o) ==
    IF a.shape # b.shape \/ o.shape # a.shape
    THEN Ret(hp, NoArr, "ShapeError")
    ELSE Ret(WriteOut(hp, o, MulData(hp, a, b)), o, "none")

\* sum() that accumulates into the first element of its operand and returns
\* a view of it
SumIntoOperand(hp, h) ==
    Ret(WriteAt(hp, h.st, {h.offset},
                [p \in {h.offset} |-> SumSeq(Flat(hp, h))]),
        Arr(h.st, <<>>, <<>>, h.offset, h.dtype, "tensor"), "none")

\* x.sum(): a fresh rank-0 array holding the aggregate
Sum(hp, h) ==
    Fresh(hp, <<>>, <<SumSeq(Flat(hp, h))>>, h.dtype, hp[h.st].dev, "tensor")

\* item() that hands out the first element of any non-empty array
ItemOfFirst(hp, h) ==
    IF Numel(h) = 0 THEN Ret(hp, NoArr, "ValueError")
    ELSE Ret(hp, [kind |-> "float", val |-> Flat(hp, h)[1]], "none")

\* x.item(): the single element as a native number
Item(hp, h) ==
    IF Numel(h) # 1 THEN Ret(hp, NoArr, "ValueError")
    ELSE Ret(hp, [kind |-> "float", val |-> Flat(hp, h)[1]], "none")

\* the out-of-place add (x.add(k)): the sum goes to a fresh array
AddOutOfPlace(hp, h, k) ==
    Fresh(hp, h.shape, [L \in 1..Numel(h) |-> Flat(hp, h)[L] + k], h.dtype,
          hp[h.st].dev, h.kind)

\* x.add_(k), np.add(x, k, out=x): element + k written into the storage of x
AddInplace(hp, h, k) ==
    Ret(WriteAt(hp, h.st, PosSet(h),
                [p \in PosSet(h) |-> hp[h.st].data[p + 1] + k]), h, "none")

(* ------------------------- bridge and devices -------------------------- *)

\* numpy() that copies the elements into a buffer of its own
NumpyCopies(hp, h) ==
    IF hp[h.st].dev # "cpu" THEN Ret(hp, NoArr, "DeviceError")
    ELSE Fresh(hp, h.shape, Flat(hp, h), h.dtype, "cpu", "ndarray")

\* numpy() that hands out the storage wherever it lives
NumpyAnyDevice(hp, h) == Ret(hp, [h EXCEPT !.kind = "ndarray"], "none")

\* t.numpy(): an ndarray over the storage of t, host tensors only
Numpy(hp, h) ==
    IF hp[h.st].dev # "cpu" THEN Ret(hp, NoArr, "DeviceError")
    ELSE Ret(hp, [h EXCEPT !.kind = "ndarray"], "none")

\* from_numpy that copies the buffer (torch.tensor(n))
FromNumpyCopies(hp, n) ==
    Fresh(hp, n.shape, Flat(hp, n), n.dtype, "cpu", "tensor")

\* torch.from_numpy(n): a tensor over the buffer of n
FromNumpy(hp, n) == Ret(hp, [n EXCEPT !.kind = "tensor"], "none")

\* np.ones(k): fresh float64 host buffer
NpOnes(hp, k) == Fresh(hp, <<k>>, Fill(<<k>>, One), "f64", "cpu", "ndarray")

\* to() that copies even when x is on dev already
ToAlwaysCopies(hp, h, dev, avail) ==
    IF dev \notin avail THEN Ret(hp, NoArr, "DeviceError")
    ELSE IF IsDense(h)
    THEN Ret(Alloc(hp, [p \in 1..Numel(h) |-> hp[h.st].data[h.offset + p]], dev),
             [h EXCEPT !.st = Len(hp) + 1, !.offset = 0], "none")
    ELSE Fresh(hp, h.shape, Flat(hp, h), h.dtype, dev, h.kind)

\* x.to(dev): x itself when it is on dev already; otherwise a copy in fresh
\* storage on dev (same strides when x is dense, row-major otherwise)
To(hp, h, dev, avail) ==
    IF hp[h.st].dev = dev THEN Ret(hp, h, "none")
    ELSE IF dev \notin avail THEN Ret(hp, NoArr, "DeviceError")
    ELSE IF IsDense(h)
    THEN Ret(Alloc(hp, [p \in 1..Numel(h) |-> hp[h.st].data[h.offset + p]], dev),
             [h EXCEPT !.st = Len(hp) + 1, !.offset = 0], "none")
    ELSE Fresh(hp, h.shape, Flat(hp, h), h.dtype, dev, h.kind)

\* the devices usable in this process
Avail == IF mps THEN {"cpu", "mps"} ELSE {"cpu"}

(* ----------------- the kernel running Tensors.ipynb -------------------- *)

TNames == {"x_data", "np_array", "x_np", "x_ones", "x_rand", "rand_tensor",
           "ones_tensor", "zeros_tensor", "tensor", "t1", "y1", "y2", "y3",
           "z1", "z2", "z3", "agg", "agg_item", "t", "n", "Out"}

\* data = [[1, 2],[3, 4]]
data == <<<<1, 2>>, <<3, 4>>>>

\* shape = (2,3,)
shape == <<2, 3>>

\* a statement "name = call": binds the result, drops what name held before
Bind(at, nxt, name, r) ==
    /\ pc = at
    /\ err' = r.err
    /\ ret' = r.arr
    /\ old' = heap
    /\ env' = IF r.err = "none" THEN [env EXCEPT ![name] = r.arr] ELSE env
    /\ heap' = Collect(r.heap, env')
    /\ pc' = IF r.err = "none" THEN nxt ELSE "raised"
    /\ UNCHANGED <<mps, calls>>

\* a statement that is a bare call: its value is not bound to a name
Call(at, nxt, r) ==
    /\ pc = at
    /\ err' = r.err
    /\ ret' = r.arr
    /\ old' = heap
    /\ heap' = Collect(r.heap, env)
    /\ pc' = IF r.err = "none" THEN nxt ELSE "raised"
    /\ UNCHANGED <<env, mps, calls>>

Init ==
    /\ heap = <<>>
    /\ env = [x \in TNames |-> NoArr]
    /\ pc = "x_data"
    /\ mps \in BOOLEAN
    /\ err = "none"
    /\ ret = NoArr
    /\ old = <<>>
    /\ calls = <<>>

Cell2_x_data == Bind("x_data", "np_array", "x_data", FromNested(heap, data, "tensor"))

Cell3_np_array == Bind("np_array", "x_np", "np_array", FromNested(heap, data, "ndarray"))

Cell3_x_np == Bind("x_np", "x_ones", "x_np", FromNumpy(heap, env["np_array"]))

Cell4_x_ones == Bind("x_ones", "x_rand", "x_ones", OnesLike(heap, env["x_data"]))

Cell4_x_rand ==
    \E s \in Seeds :
        Bind("x_rand", "rand_tensor", "x_rand", RandLike(heap, env["x_data"], "f32", s))

Cell5_rand_tensor ==
    \E s \in Seeds :
        Bind("rand_tensor", "ones_tensor", "rand_tensor", Rand(heap, shape, "f32", "cpu", s))

Cell5_ones_tensor == Bind("ones_tensor", "zeros_tensor", "ones_tensor", Ones(heap, shape, "f32", "cpu"))

Cell5_zeros_tensor == Bind("zeros_tensor", "rand34", "zeros_tensor", Zeros(heap, shape, "f32", "cpu"))

Cell6_tensor ==
    \E s \in Seeds :
        Bind("rand34", "to_mps", "tensor", Rand(heap, <<3, 4>>, "f32", "cpu", s))

\* if torch.mps.is_available(): tensor = tensor.to(torch.device("mps"))
Cell7_to ==
    IF mps
    THEN Bind("to_mps", "ones44", "tensor", To(heap, env["tensor"], "mps", Avail))
    ELSE Call("to_mps", "ones44", Ret(heap, NoArr, "none"))

Cell8_tensor == Bind("ones44", "first_row", "tensor", Ones(heap, <<4, 4>>, "f32", "cpu"))

\* print(f"First row: {tensor[0]}")
Cell8_first_row ==
    Call("first_row", "first_col", Ret(heap, Index(env["tensor"], <<Ix(0)>>).arr, "none"))

\* print(f"First column: {tensor[:, 0]}")
Cell8_first_col ==
    Call("first_col", "last_col", Ret(heap, Index(env["tensor"], <<All, Ix(0)>>).arr, "none"))

\* print(f"Last column: {tensor[..., -1]}")
Cell8_last_col ==
    Call("last_col", "setitem", Ret(heap, Index(env["tensor"], <<Ell, Ix(-1)>>).arr, "none"))

\* tensor[:,1] = 0
Cell8_setitem ==
    Call("setitem", "cat", SetItem(heap, env["tensor"], <<All, Ix(1)>>, Scalar(0)))

\* t1 = torch.cat([tensor, tensor, tensor], dim=1)
Cell9_t1 ==
    Bind("cat", "y1", "t1", Cat(heap, <<env["tensor"], env["tensor"], env["tensor"]>>, 2))

Cell10_y1 == Bind("y1", "y2", "y1", Matmul(heap, env["tensor"], Transpose(env["tensor"])))

Cell10_y2 == Bind("y2", "y3", "y2", Matmul(heap, env["tensor"], Transpose(env["tensor"])))

Cell10_y3 ==
    \E s \in Seeds : Bind("y3", "matmul_out", "y3", RandLike(heap, env["y1"], "f32", s))

Cell10_matmul_out ==
    Call("matmul_out", "z1", MatmulOut(heap, env["tensor"], Transpose(env["tensor"]), env["y3"]))

Cell10_z1 == Bind("z1", "z2", "z1", Mul(heap, env["tensor"], env["tensor"]))

Cell10_z2 == Bind("z2", "z3", "z2", Mul(heap, env["tensor"], env["tensor"]))

Cell10_z3 ==
    \E s \in Seeds : Bind("z3", "mul_out", "z3", RandLike(heap, env["tensor"], "f32", s))

\* the last expression of the cell: its value is kept as the cell's output
Cell10_mul_out ==
    Bind("mul_out", "agg", "Out", MulOut(heap, env["tensor"], env["tensor"], env["z3"]))

Cell11_agg == Bind("agg", "agg_item", "agg", Sum(heap, env["tensor"]))

Cell11_agg_item == Bind("agg_item", "add_5", "agg_item", Item(heap, env["agg"]))

\* tensor.add_(5)
Cell12_add_ == Call("add_5", "t_ones", AddInplace(heap, env["tensor"], Fx(5)))

Cell13_t == Bind("t_ones", "numpy", "t", Ones(heap, <<5>>, "f32", "cpu"))

Cell13_n == Bind("numpy", "add_1", "n", Numpy(heap, env["t"]))

\* t.add_(1)
Cell14_add_ == Call("add_1", "np_ones", AddInplace(heap, env["t"], Fx(1)))

Cell15_n == Bind("np_ones", "from_numpy", "n", NpOnes(heap, 5))

Cell15_t == Bind("from_numpy", "np_add", "t", FromNumpy(heap, env["n"]))

\* np.add(n, 1, out=n)
Cell16_np_add == Call("np_add", "end", AddInplace(heap, env["n"], Fx(1)))

Next ==
    \/ Cell2_x_data \/ Cell3_np_array \/ Cell3_x_np \/ Cell4_x_ones
    \/ Cell4_x_rand \/ Cell5_rand_tensor \/ Cell5_ones_tensor
    \/ Cell5_zeros_tensor \/ Cell6_tensor \/ Cell7_to \/ Cell8_tensor
    \/ Cell8_first_row \/ Cell8_first_col \/ Cell8_last_col \/ Cell8_setitem
    \/ Cell9_t1 \/ Cell10_y1 \/ Cell10_y2 \/ Cell10_y3 \/ Cell10_matmul_out
    \/ Cell10_z1 \/ Cell10_z2 \/ Cell10_z3 \/ Cell10_mul_out \/ Cell11_agg
    \/ Cell11_agg_item \/ Cell12_add_ \/ Cell13_t \/ Cell13_n \/ Cell14_add_
    \/ Cell15_n \/ Cell15_t \/ Cell16_np_add

Spec == Init /\ [][Next]_vars

(* ------------------- operation-level sessions -------------------------- *)
(* A session starts from one array built the way the cells build theirs    *)
(* (a nested literal, ones, rand, each also as its transpose .T) bound to  *)
(* name 0, and makes MaxCalls library calls on the arrays bound so far;    *)
(* the array returned by call i is bound to name i.                        *)

Inputs ==
    {[ctor |-> "tensor", shape |-> <<2, 2>>, seed |-> 0, T |-> b] : b \in BOOLEAN}
    \cup {[ctor |-> "ones", shape |-> <<4, 4>>, seed |-> 0, T |-> b] : b \in BOOLEAN}
    \cup {[ctor |-> "ones", shape |-> <<5>>, seed |-> 0, T |-> FALSE]}
    \cup {[ctor |-> "rand", shape |-> <<2, 3>>, seed |-> s, T |-> b] :
             s \in Seeds, b \in BOOLEAN}
    \cup {[ctor |-> "rand", shape |-> <<3, ImgSide, ImgSide>>, seed |-> s,
           T |-> FALSE] : s \in Seeds}

\* the heap and the array of a session that starts from input c
MkInput(c) ==
    LET r == CASE c.ctor = "tensor" -> FromNested(<<>>, data, "tensor")
               [] c.ctor = "ones" -> Ones(<<>>, c.shape, "f32", "cpu")
               [] c.ctor = "rand" -> Rand(<<>>, c.shape, "f32", "cpu", c.seed)
    IN  [heap |-> r.heap,
         arr |-> IF c.T
                 THEN [r.arr EXCEPT !.shape = <<c.shape[2], c.shape[1]>>,
                                    !.strides = <<1, c.shape[2]>>]
                 ELSE r.arr]

SNames == 0..(MaxCalls + 1)

SessionInit(ms) ==
    /\ \E c \in Inputs :
           /\ heap = MkInput(c).heap
           /\ env = [x \in SNames |-> IF x = 0 THEN MkInput(c).arr ELSE NoArr]
    /\ pc = "session"
    /\ mps \in ms
    /\ err = "none"
    /\ ret = NoArr
    /\ old = <<>>
    /\ calls = <<>>

\* call number Len(calls)+1 of a session: op applied to the array named src
Do(op, src, arg, r, binds) ==
    /\ pc = "session"
    /\ Len(calls) < MaxCalls
    /\ calls' = Append(calls, [op |-> op, src |-> src, arg |-> arg])
    /\ err' = r.err
    /\ ret' = r.arr
    /\ old' = heap
    /\ env' = IF binds /\ r.err = "none"
              THEN [env EXCEPT ![Len(calls) + 1] = r.arr] ELSE env
    /\ heap' = Collect(r.heap, env')
    /\ UNCHANGED <<pc, mps>>

Bound == {x \in SNames : IsArr(env[x])}

\* the selectors the cells use: x[0], x[:, 0], x[:, 1], x[..., -1]
Sels == {<<Ix(0)>>, <<All, Ix(0)>>, <<All, Ix(1)>>, <<Ell, Ix(-1)>>}

\* shapes asked of reshape
ReShapes == {<<4>>, <<2, 2>>, <<6>>, <<3, 2>>, <<2, 3>>, <<16>>, <<4, 4>>,
             <<3, ImgSide * ImgSide>>, <<3, ImgSide, ImgSide>>}

SIndex ==
    \E x \in Bound, sel \in Sels :
        LET ix == Index(env[x], sel)
        IN  Do("index", x, sel, Ret(heap, ix.arr, ix.err), TRUE)

STranspose ==
    \E x \in Bound :
        /\ Rank(env[x]) = 2
        /\ Do("T", x, <<>>, Ret(heap, Transpose(env[x]), "none"), TRUE)

SAdd ==
    \E x \in Bound, k \in {1, MaxAdd} :
        Do("add_", x, Fx(k), AddInplace(heap, env[x], Fx(k)), FALSE)

\* shapes of the arrays assigned into a region
VShapes == {<<1>>, <<3>>}

\* x[sel] = 0,  x[sel] = torch.ones(vs)
SSetItem ==
    \E x \in Bound, sel \in Sels \ {<<All, Ix(0)>>} :
        \/ Do("setitem", x, [sel |-> sel, v |-> Scalar(0)],
              SetItem(heap, env[x], sel, Scalar(0)), FALSE)
        \/ \E vs \in VShapes :
              LET rv == Ones(heap, vs, "f32", "cpu")
              IN  Do("setitem", x, [sel |-> sel, v |-> rv.arr],
                     SetItem(rv.heap, env[x], sel, rv.arr), FALSE)

SReshape ==
    \E x \in Bound, s2 \in ReShapes \cup {env[z].shape : z \in Bound} :
        Do("reshape", x, s2, Reshape(heap, env[x], s2), TRUE)

SFlatten ==
    \E x \in Bound :
        /\ Rank(env[x]) >= 2
        /\ Do("flatten", x, <<>>, Flatten(heap, env[x]), TRUE)

STo ==
    \E x \in Bound, dev \in {"cpu", "mps"} :
        Do("to", x, dev, To(heap, env[x], dev, Avail), TRUE)

\* indexing, transposition and in-place arithmetic through views
ViewInit == SessionInit({FALSE})

ViewNext == SIndex \/ STranspose \/ SAdd

ViewSpec == ViewInit /\ [][ViewNext]_vars

\* assignment to a selected region
AssignInit == SessionInit({FALSE})

AssignNext == SIndex \/ SSetItem

AssignSpec == AssignInit /\ [][AssignNext]_vars

\* reshaping of arrays of any layout
ReshapeInit == SessionInit({FALSE})

ReshapeNext == STranspose \/ SReshape \/ SFlatten

ReshapeSpec == ReshapeInit /\ [][ReshapeNext]_vars

\* device transfer, with and without an accelerator in the process
DeviceInit == SessionInit(BOOLEAN)

DeviceNext == STo \/ SAdd \/ STranspose

DeviceSpec == DeviceInit /\ [][DeviceNext]_vars

(* ======================= properties: Tensors.ipynb ===================== *)

Order == <<"x_data", "np_array", "x_np", "x_ones", "x_rand", "rand_tensor",
           "ones_tensor", "zeros_tensor", "rand34", "to_mps", "ones44",
           "first_row", "first_col", "last_col", "setitem", "cat", "y1", "y2",
           "y3", "matmul_out", "z1", "z2", "z3", "mul_out", "agg", "agg_item",
           "add_5", "t_ones", "numpy", "add_1", "np_ones", "from_numpy",
           "np_add", "end">>

\* position of a statement in the notebook (0 for a run that raised)
At(p) == IF \E i \in 1..Len(Order) : Order[i] = p
         THEN CHOOSE i \in 1..Len(Order) : Order[i] = p ELSE 0

\* the statement at label a has run and the one at label b has not
Between(a, b) == At(pc) > At(a) /\ At(pc) <= At(b)

Done(a) == At(pc) > At(a)

Row1011 == <<One, 0, One, One>>

\* C1: from ones(4,4), after tensor[:,1] = 0 every row of tensor (read as
\* tensor[i], tensor[0] included) is [1,0,1,1], and agg = tensor.sum() is a
\* single-element array whose item() is 12.0
C1_SliceAssignThenSum ==
    /\ Between("setitem", "add_5") =>
           \A i \in 0..3 :
               Flat(heap, Index(env["tensor"], <<Ix(i)>>).arr) = Row1011
    /\ Done("agg") =>
           /\ Numel(env["agg"]) = 1
           /\ Flat(heap, env["agg"]) = <<Fx(12)>>
    /\ Done("agg_item") =>
           /\ env["agg_item"].kind = "float"
           /\ env["agg_item"].val = Fx(12)

C1_Witness ==
    /\ pc = "add_5"
    /\ Flat(heap, Index(env["tensor"], <<Ix(0)>>).arr) = Row1011
    /\ env["agg_item"] = [kind |-> "float", val |-> Fx(12)]

\* C3: after n = t.numpy() on the host tensor t = ones(5), n and t share one
\* storage and n equals t element for element in every state up to the
\* rebinding of n; after t.add_(1) both read 2 everywhere
C3_NumpySharesStorage ==
    /\ Between("numpy", "np_ones") =>
           /\ env["n"].kind = "ndarray"
           /\ env["n"].st = env["t"].st
           /\ Flat(heap, env["n"]) = Flat(heap, env["t"])
    /\ pc = "np_ones" =>
           /\ Flat(heap, env["t"]) = Fill(<<5>>, Fx(2))
           /\ Flat(heap, env["n"]) = Fill(<<5>>, Fx(2))

C3_Witness ==
    /\ pc = "np_ones"
    /\ err = "none"
    /\ Flat(heap, env["n"]) = Fill(<<5>>, Fx(2))

\* C4: after t = torch.from_numpy(n) the tensor t aliases the buffer n (no
\* copy): np.add(n, 1, out=n) on ones(5) shows through t (t reads 2
\* everywhere), and a write through t (t.add_) would show in n
C4_FromNumpyAliases ==
    /\ Done("from_numpy") =>
           /\ env["t"].kind = "tensor"
           /\ env["t"].st = env["n"].st
           /\ Flat(heap, env["t"]) = Flat(heap, env["n"])
           /\ LET r == AddInplace(heap, env["t"], Fx(1))
              IN  Flat(r.heap, env["n"]) =
                      [L \in 1..5 |-> Flat(heap, env["n"])[L] + Fx(1)]
    /\ pc = "np_add" => Flat(heap, env["t"]) = Fill(<<5>>, Fx(1))
    /\ pc = "end" =>
           /\ Flat(heap, env["n"]) = Fill(<<5>>, Fx(2))
           /\ Flat(heap, env["t"]) = Fill(<<5>>, Fx(2))

C4_Witness ==
    /\ pc = "end"
    /\ err = "none"
    /\ Flat(heap, env["t"]) = Fill(<<5>>, Fx(2))

\* C5: t1 = cat([tensor, tensor, tensor], dim=1) of the (4,4) array with
\* rows [1,0,1,1] has shape (4,12) and t1[i][j] = tensor[i][j mod 4]: the
\* column pattern 1,0,1,1 three times in a row
C5_CatRepeatsColumns ==
    /\ Done("cat") =>
           /\ env["t1"].shape = <<4, 12>>
           /\ \A i \in 0..3, j \in 0..11 :
                  At2(heap, env["t1"], i, j) = Row1011[(j % 4) + 1]
    /\ Between("cat", "add_5") =>
           \A i \in 0..3, j \in 0..11 :
               At2(heap, env["t1"], i, j) = At2(heap, env["tensor"], i, j % 4)

C5_Witness ==
    /\ pc = "y1"
    /\ env["t1"].shape = <<4, 12>>
    /\ Flat(heap, Index(env["t1"], <<Ix(3)>>).arr) = Row1011 \o Row1011 \o Row1011

\* C6: the three calling forms agree: y1 (operator @), y2 (method) and y3
\* (out= form) are elementwise equal, and so are z1, z2, z3; the out= form
\* overwrites every element of the random destination and returns that
\* destination itself
C6_CallingFormsAgree ==
    /\ Done("y2") => Flat(heap, env["y1"]) = Flat(heap, env["y2"])
    /\ Done("y1") => Flat(heap, env["y1"]) = Fill(<<4, 4>>, Fx(3))
    /\ Done("matmul_out") =>
           /\ env["y3"].shape = env["y1"].shape
           /\ Flat(heap, env["y3"]) = Flat(heap, env["y1"])
    /\ pc = "z1" => ret = env["y3"]
    /\ Done("z2") => Flat(heap, env["z1"]) = Flat(heap, env["z2"])
    /\ Done("z1") =>
           Flat(heap, env["z1"]) = Row1011 \o Row1011 \o Row1011 \o Row1011
    /\ Done("mul_out") =>
           /\ Flat(heap, env["z3"]) = Flat(heap, env["z1"])
           /\ env["Out"] = env["z3"]

C6_Witness ==
    /\ pc = "agg"
    /\ env["Out"] = env["z3"]
    /\ Flat(heap, env["y3"]) = Fill(<<4, 4>>, Fx(3))
    /\ Flat(heap, env["z3"]) = Flat(heap, env["z2"])

(* ==================== properties: operation sessions =================== *)

N == Len(calls)

Last == calls[N]

LastIs(op) == N >= 1 /\ Last.op = op

AddK(s, k) == [L \in 1..Len(s) |-> s[L] + k]

\* one step of C2: what a call of add_ changes and what it leaves alone
C2_AddInplaceStep ==
    (calls' # calls /\ calls'[Len(calls')].op = "add_") =>
        LET c == calls'[Len(calls')]
            x == env[c.src]
            k == c.arg
        IN  /\ err' = "none"
            /\ env' = env
            /\ ret' = x
            /\ Len(heap') = Len(heap)
            /\ \A i \in 1..Len(heap) : i # x.st => heap'[i] = heap[i]
            /\ \A p \in 1..Len(heap[x.st].data) :
                   heap'[x.st].data[p] =
                       heap[x.st].data[p] + (IF (p - 1) \in PosSet(x) THEN k ELSE 0)
            /\ Flat(heap', x) = AddK(Flat(heap, x), k)
            /\ \A y \in Bound :
                   (env[y].st = x.st /\ PosSet(env[y]) \subseteq PosSet(x)) =>
                       Flat(heap', env[y]) = AddK(Flat(heap, env[y]), k)
            /\ (x.shape = <<4, 4>> /\ Flat(heap, x) = Fill(<<4, 4>>, One) /\ k = Fx(5)) =>
                   Flat(heap', x) = Fill(<<4, 4>>, Fx(6))

\* C2: x.add_(k) writes element+k into every element of the storage x already
\* has, and changes neither the shape nor the identity of x (same handle,
\* same storage, no allocation); ones(4,4).add_(5) is 6 everywhere, and every
\* view made over x before the call reads the updated values
C2_AddInplace == [][C2_AddInplaceStep]_vars

C2_Witness ==
    /\ N = 2
    /\ calls[1].op \in {"index", "T"}
    /\ Last = [op |-> "add_", src |-> 0, arg |-> Fx(5)]
    /\ env[0].shape = <<4, 4>>
    /\ Flat(heap, env[0]) = Fill(<<4, 4>>, Fx(6))
    /\ IsArr(env[1])
    /\ env[1].st = env[0].st
    /\ \A L \in 1..Numel(env[1]) : Flat(heap, env[1])[L] = Fx(6)

\* C7: to(A, dev) with A on dev returns A itself (same handle, same storage)
\* and copies nothing, so to(to(A, dev), dev) is to(A, dev); a transfer to
\* another (available) device allocates new storage holding all elements of A
\* and no longer aliased with A
C7_ToIdempotent ==
    LastIs("to") =>
        LET x == env[Last.src]
            dev == Last.arg
        IN  /\ old[x.st].dev = dev =>
                   /\ err = "none"
                   /\ ret = x
                   /\ env[N] = x
                   /\ heap = old
            /\ (N >= 2 /\ calls[N - 1].op = "to" /\ calls[N - 1].arg = dev
                  /\ Last.src = N - 1) =>
                   /\ env[N] = env[N - 1]
                   /\ heap = old
            /\ (old[x.st].dev # dev /\ dev \in Avail) =>
                   /\ err = "none"
                   /\ Len(heap) = Len(old) + 1
                   /\ env[N].st = Len(heap)
                   /\ heap[env[N].st].dev = dev
                   /\ env[N].shape = x.shape
                   /\ Flat(heap, env[N]) = Flat(heap, x)
                   /\ Flat(AddInplace(heap, x, One).heap, env[N]) = Flat(heap, env[N])
                   /\ Flat(AddInplace(heap, env[N], One).heap, x) = Flat(heap, x)

C7_Witness ==
    /\ N = 2
    /\ calls[1] = [op |-> "to", src |-> 0, arg |-> "mps"]
    /\ calls[2] = [op |-> "to", src |-> 1, arg |-> "mps"]
    /\ err = "none"
    /\ env[2] = env[1]
    /\ env[1].st # env[0].st
    /\ heap[env[1].st].dev = "mps"

\* C8: for a 2-D array A, A.T.T has the shape of A and equals A element for
\* element, and both transposes are views over the storage of A
C8_TransposeTwice ==
    \A i \in 2..N :
        (calls[i].op = "T" /\ calls[i - 1].op = "T" /\ calls[i].src = i - 1) =>
            LET a == env[calls[i - 1].src]
            IN  /\ env[i].shape = a.shape
                /\ Flat(heap, env[i]) = Flat(heap, a)
                /\ env[i - 1].st = a.st
                /\ env[i].st = a.st
                /\ env[i].strides = a.strides
                /\ env[i].offset = a.offset

C8_Witness ==
    /\ N = 2
    /\ calls[1] = [op |-> "T", src |-> 0, arg |-> <<>>]
    /\ calls[2] = [op |-> "T", src |-> 1, arg |-> <<>>]
    /\ ~IsContiguous(env[0])
    /\ Flat(heap, env[2]) = Flat(heap, env[0])
    /\ Flat(heap, env[1]) # Flat(heap, env[0])

\* C9: reshape(A, s2) fails, with ShapeError, exactly when product(s2) differs
\* from A.numel (never because A is not contiguous); when it succeeds the
\* result has shape s2 and A's element count, reshape(reshape(A, s2), A.shape)
\* equals A element for element, and flattening a (3,h,w) batch gives
\* (3, h*w)
C9_ReshapeRoundTrip ==
    /\ LastIs("reshape") =>
           LET x == env[Last.src]
           IN  /\ (err = "ShapeError") <=> (Prod(Last.arg) # Numel(x))
               /\ err \in {"none", "ShapeError"}
               /\ err = "none" =>
                      /\ env[N].shape = Last.arg
                      /\ Numel(env[N]) = Numel(x)
               /\ (N >= 2 /\ calls[N - 1].op = "reshape" /\ Last.src = N - 1
                     /\ Last.arg = env[calls[N - 1].src].shape) =>
                      /\ err = "none"
                      /\ env[N].shape = env[calls[N - 1].src].shape
                      /\ Flat(heap, env[N]) = Flat(heap, env[calls[N - 1].src])
    /\ LastIs("flatten") =>
           /\ err = "none"
           /\ env[N].shape = <<env[Last.src].shape[1],
                               Numel(env[Last.src]) \div env[Last.src].shape[1]>>
           /\ Numel(env[N]) = Numel(env[Last.src])
           /\ Flat(heap, env[N]) = Flat(heap, env[Last.src])

C9_Witness ==
    /\ N = 2
    /\ calls[1].op = "reshape"
    /\ calls[1].src = 0
    /\ Last = [op |-> "reshape", src |-> 1, arg |-> env[0].shape]
    /\ ~IsContiguous(env[0])
    /\ env[1].shape # env[0].shape
    /\ err = "none"
    /\ Flat(heap, env[2]) = Flat(heap, env[0])
    /\ \E L \in 1..Numel(env[0]) : Flat(heap, env[0])[L] # Flat(heap, env[0])[1]

\* the selector addresses an existing part of an array of this shape
Applicable(sel, s) ==
    CASE sel = <<Ix(0)>> -> Len(s) >= 1
      [] sel = <<Ell, Ix(-1)>> -> Len(s) >= 1
      [] OTHER -> Len(s) >= 2 /\ sel[2].i < s[2]

\* the element at index tuple idx of an array of shape s is in x[sel]
Selected(sel, s, idx) ==
    CASE sel = <<Ix(0)>> -> idx[1] = 0
      [] sel = <<Ell, Ix(-1)>> -> idx[Len(s)] = s[Len(s)] - 1
      [] OTHER -> idx[2] = sel[2].i

\* the shape of the region x[sel] of an array of shape s
RegionShape(sel, s) ==
    CASE sel = <<Ix(0)>> -> Tail(s)
      [] sel = <<Ell, Ix(-1)>> -> SubSeq(s, 1, Len(s) - 1)
      [] OTHER -> <<s[1]>> \o SubSeq(s, 3, Len(s))

Min(a, b) == IF a < b THEN a ELSE b

\* compared from the last dimension backwards, some dimension of vs is
\* neither 1 nor the size ts has there
Mismatch(vs, ts) ==
    \E j \in 1..Min(Len(vs), Len(ts)) :
        vs[Len(vs) + 1 - j] \notin {1, ts[Len(ts) + 1 - j]}

\* C10: target[selector] = value writes into the storage of target: a
\* scalar-shaped value goes to every element of the selected region and to
\* no other (tensor[:,1] = 0 zeroes column 1 of all four rows only); a value
\* with a dimension that is neither 1 nor the region's size, compared from
\* the last dimension backwards, fails with BroadcastError and writes nothing
C10_SliceAssignBroadcast ==
    (LastIs("setitem") /\ Applicable(Last.arg.sel, env[Last.src].shape)) =>
        LET x == env[Last.src]
            sel == Last.arg.sel
            v == Last.arg.v
            one == v.kind = "scalar" \/ Prod(v.shape) = 1
            val == IF v.kind = "scalar" THEN v.val ELSE One
        IN  /\ one =>
                   /\ err = "none"
                   /\ \A L \in 0..(Numel(x) - 1) :
                          LET idx == Unravel(L, x.shape)
                          IN  heap[x.st].data[Pos(x, idx) + 1] =
                                  IF Selected(sel, x.shape, idx) THEN val
                                  ELSE old[x.st].data[Pos(x, idx) + 1]
                   /\ \A p \in 1..Len(old[x.st].data) :
                          (p - 1) \notin PosSet(x) =>
                              heap[x.st].data[p] = old[x.st].data[p]
            /\ (~one /\ Mismatch(v.shape, RegionShape(sel, x.shape))) =>
                   /\ err = "BroadcastError"
                   /\ \A i \in 1..Len(old) : heap[i] = old[i]

C10_Witness ==
    /\ N = 1
    /\ Last.op = "setitem"
    /\ Last.src = 0
    /\ Last.arg = [sel |-> <<All, Ix(1)>>, v |-> Scalar(0)]
    /\ env[0].shape = <<4, 4>>
    /\ IsContiguous(env[0])
    /\ Flat(old, env[0]) = Fill(<<4, 4>>, One)
    /\ Flat(heap, env[0]) = Row1011 \o Row1011 \o Row1011 \o Row1011

(* --------------------- in-place add of an array ------------------------ *)

\* x.add_(v) that starts writing before it has compared the shapes
AddTensorWriteThenCheck(hp, h, v) ==
    IF hp[v.st].dev # hp[h.st].dev THEN Ret(hp, NoArr, "DeviceError")
    ELSE IF ~Broadcastable(v.shape, h.shape)
    THEN Ret(IF Numel(h) > 0 /\ Numel(v) > 0
             THEN WriteAt(hp, h.st, {h.offset},
                          [p \in {h.offset} |->
                              hp[h.st].data[p + 1] + Flat(hp, v)[1]])
             ELSE hp, NoArr, "ShapeError")
    ELSE LET vd == Flat(hp, v)
         IN  Ret(WriteAt(hp, h.st, PosSet(h),
                 [p \in PosSet(h) |->
                     hp[h.st].data[p + 1]
                         + BroadcastElem(v.shape, vd,
                               Unravel(LogicalOf(h, p), h.shape))]),
                 h, "none")

\* x.add_(v) for an array v: the broadcast of the two shapes has to be the
\* shape of x; the shapes are compared before anything is written
AddTensorInplace(hp, h, v) ==
    IF hp[v.st].dev # hp[h.st].dev THEN Ret(hp, NoArr, "DeviceError")
    ELSE IF ~Broadcastable(v.shape, h.shape) THEN Ret(hp, NoArr, "ShapeError")
    ELSE LET vd == Flat(hp, v)
         IN  Ret(WriteAt(hp, h.st, PosSet(h),
                 [p \in PosSet(h) |->
                     hp[h.st].data[p + 1]
                         + BroadcastElem(v.shape, vd,
                               Unravel(LogicalOf(h, p), h.shape))]),
                 h, "none")

\* shapes of the arrays added in place
AddShapes == {<<1>>, <<3>>, <<4>>, <<1, 4>>, <<2, 3>>}

\* x.add_(torch.ones(vs))
SAddTensor ==
    \E x \in Bound, vs \in AddShapes :
        LET rv == Ones(heap, vs, "f32", "cpu")
        IN  Do("add_tensor", x, rv.arr,
               AddTensorInplace(rv.heap, env[x], rv.arr), FALSE)

\* in-place arithmetic with an array operand, through views as well
InplaceInit == SessionInit({FALSE})

InplaceNext == SIndex \/ SAddTensor

InplaceSpec == InplaceInit /\ [][InplaceNext]_vars

(* ============== properties: in-place add of an array =================== *)

Max(a, b) == IF a < b THEN b ELSE a

\* dimension j, counted from the last one (j = 1), of shape s; 1 when s has
\* fewer dimensions
DimFromEnd(s, j) == IF j <= Len(s) THEN s[Len(s) + 1 - j] ELSE 1

\* the two shapes have a broadcast shape
Compatible(a, b) ==
    \A j \in 1..Max(Len(a), Len(b)) :
        DimFromEnd(a, j) = DimFromEnd(b, j)
            \/ DimFromEnd(a, j) = 1 \/ DimFromEnd(b, j) = 1

\* the broadcast shape of two compatible shapes
BroadcastShape(a, b) ==
    LET n == Max(Len(a), Len(b))
    IN  [i \in 1..n |-> Max(DimFromEnd(a, n + 1 - i), DimFromEnd(b, n + 1 - i))]

SNumpy ==
    \E x \in Bound :
        /\ env[x].kind = "tensor"
        /\ Do("numpy", x, <<>>, Numpy(heap, env[x]), TRUE)

\* export after device transfers, with and without an accelerator
BridgeInit == SessionInit(BOOLEAN)

BridgeNext == STo \/ SNumpy \/ SAdd

BridgeSpec == BridgeInit /\ [][BridgeNext]_vars

\* C12: t.numpy() fails with DeviceError exactly when t is not in host
\* memory, and otherwise returns a buffer over the storage of t; an array the
\* cells create (t = torch.ones(5)) is on the host, so its export never
\* raises DeviceError, with or without an accelerator
C12_ExportHostOnly ==
    LastIs("numpy") =>
        LET x == env[Last.src]
        IN  /\ (err = "DeviceError") <=> (old[x.st].dev # "cpu")
            /\ err \in {"none", "DeviceError"}
            /\ err = "none" =>
                   /\ env[N].kind = "ndarray"
                   /\ env[N].st = x.st
                   /\ heap = old
                   /\ Flat(AddInplace(heap, x, One).heap, env[N]) =
                          AddK(Flat(heap, env[N]), One)
            /\ Last.src = 0 => err = "none"

C12_Witness ==
    /\ mps
    /\ N = 1
    /\ Last = [op |-> "numpy", src |-> 0, arg |-> <<>>]
    /\ env[0].shape = <<5>>
    /\ err = "none"
    /\ env[1].st = env[0].st
    /\ env[1].kind = "ndarray"

(* -------------------- aggregates and single elements ------------------- *)

\* the session inputs, and arrays with no element and with a single one
ReduceInputs ==
    Inputs
    \cup {[ctor |-> "zeros", shape |-> sh, seed |-> 0, T |-> FALSE] :
             sh \in {<<0>>, <<0, 3>>}}
    \cup {[ctor |-> "ones", shape |-> <<1>>, seed |-> 0, T |-> FALSE]}

MkReduceInput(c) ==
    IF c.ctor = "zeros"
    THEN LET r == Zeros(<<>>, c.shape, "f32", "cpu")
         IN  [heap |-> r.heap, arr |-> r.arr]
    ELSE MkInput(c)

ReduceInit ==
    /\ \E c \in ReduceInputs :
           /\ heap = MkReduceInput(c).heap
           /\ env = [x \in SNames |->
                        IF x = 0 THEN MkReduceInput(c).arr ELSE NoArr]
    /\ pc = "session"
    /\ mps = FALSE
    /\ err = "none"
    /\ ret = NoArr
    /\ old = <<>>
    /\ calls = <<>>

\* agg = x.sum()
SSum == \E x \in Bound : Do("sum", x, <<>>, Sum(heap, env[x]), TRUE)

\* x.item()
SItem == \E x \in Bound : Do("item", x, <<>>, Item(heap, env[x]), FALSE)

ReduceNext == SIndex \/ SSum \/ SItem

ReduceSpec == ReduceInit /\ [][ReduceNext]_vars

\* C13: item() returns the element of an array of exactly one element (the
\* rank-0 result of sum() included) and fails with ValueError on every other
\* array, the empty ones included; no storage changes either way
C13_ItemSingleElement ==
    LastIs("item") =>
        LET x == env[Last.src]
        IN  /\ Prod(x.shape) = 1 =>
                   /\ err = "none"
                   /\ ret = [kind |-> "float",
                             val |-> old[x.st].data[x.offset + 1]]
            /\ Prod(x.shape) # 1 => err = "ValueError" /\ ret = NoArr
            /\ heap = old
            /\ (N >= 2 /\ calls[N - 1].op = "sum" /\ Last.src = N - 1) =>
                   /\ x.shape = <<>>
                   /\ err = "none"
                   /\ ret.val = SumSeq(Flat(old, env[calls[N - 1].src]))

C13_Witness ==
    /\ N = 2
    /\ calls[1] = [op |-> "sum", src |-> 0, arg |-> <<>>]
    /\ Last = [op |-> "item", src |-> 1, arg |-> <<>>]
    /\ env[0].shape = <<4, 4>>
    /\ err = "none"
    /\ ret = [kind |-> "float", val |-> Fx(16)]

(* ----------------------------- factories ------------------------------- *)

\* shapes asked of the factories: rank 0, zero dimensions, the cells' shapes
FShapes == {<<>>, <<0>>, <<0, 3>>, <<2, 3>>, <<5>>}

DTypes == {"f32", "i64"}

\* x = torch.ones(shape, dtype=d)
SOnes ==
    \E sh \in FShapes, d \in DTypes :
        Do("ones", Len(calls) + 1, [shape |-> sh, dtype |-> d],
           Ones(heap, sh, d, "cpu"), TRUE)

\* x = torch.zeros(shape, dtype=d)
SZeros ==
    \E sh \in FShapes, d \in DTypes :
        Do("zeros", Len(calls) + 1, [shape |-> sh, dtype |-> d],
           Zeros(heap, sh, d, "cpu"), TRUE)

FactoryInit == SessionInit({FALSE})

FactoryNext == SOnes \/ SZeros \/ SAdd

FactorySpec == FactoryInit /\ [][FactoryNext]_vars

\* C14: zeros(s, d) and ones(s, d) return an array of shape exactly s and
\* dtype d with product(s) elements, each 0 (resp. 1), on a storage allocated
\* by the call: no other array refers to it and no existing storage changes
C14_FactoriesFresh ==
    (LastIs("ones") \/ LastIs("zeros")) =>
        LET r == env[N]
            v == IF Last.op = "ones" THEN One ELSE 0
        IN  /\ err = "none"
            /\ r.shape = Last.arg.shape
            /\ r.dtype = Last.arg.dtype
            /\ Numel(r) = Prod(Last.arg.shape)
            /\ Len(Flat(heap, r)) = Prod(Last.arg.shape)
            /\ \A L \in 1..Len(Flat(heap, r)) : Flat(heap, r)[L] = v
            /\ Len(heap[r.st].data) = Prod(Last.arg.shape)
            /\ r.st \notin 1..Len(old)
            /\ \A x \in Bound \ {N} : env[x].st # r.st
            /\ \A i \in 1..Len(old) : heap[i] = old[i]

C14_Witness ==
    /\ N = 1
    /\ env[0].shape = <<5>>
    /\ Last.op = "ones"
    /\ Last.arg = [shape |-> <<5>>, dtype |-> "f32"]
    /\ err = "none"
    /\ Flat(heap, env[1]) = Flat(heap, env[0])
    /\ env[1].st # env[0].st

(* ------------------------- label transform ----------------------------- *)

\* the number of labels of the dataset: torch.zeros(10, ...)
NumLabels == 10

\* torch.tensor(y) on a Python integer: a rank-0 integer array
TensorScalar(hp, y) == Fresh(hp, <<>>, <<Fx(y)>>, "i64", "cpu", "tensor")

\* the index array read as integers
IndexValues(hp, ix) ==
    [L \in 1..Numel(ix) |-> Flat(hp, ix)[L] \div RandDen]

\* scatter_ reading the entries of index as 1-based positions
ScatterOneBased(hp, h, dim, ix, value) ==
    IF dim # 0 \/ Rank(h) # 1 \/ ix.dtype # "i64"
    THEN Ret(hp, NoArr, "IndexError")
    ELSE LET iv == IndexValues(hp, ix)
         IN  IF \E L \in 1..Len(iv) : iv[L] < 1 \/ iv[L] > h.shape[1]
             THEN Ret(hp, NoArr, "IndexError")
             ELSE LET ps == {Pos(h, <<iv[L] - 1>>) : L \in 1..Len(iv)}
                  IN  Ret(WriteAt(hp, h.st, ps, [p \in ps |-> value]), h,
                          "none")

\* x.scatter_(dim, index, value=v) on a one-dimensional x: x[index[i]] = v
\* for every entry of index (a rank-0 index counts as one entry); returns x
Scatter_(hp, h, dim, ix, value) ==
    IF dim # 0 \/ Rank(h) # 1 \/ ix.dtype # "i64"
    THEN Ret(hp, NoArr, "IndexError")
    ELSE LET iv == IndexValues(hp, ix)
         IN  IF \E L \in 1..Len(iv) : iv[L] < 0 \/ iv[L] >= h.shape[1]
             THEN Ret(hp, NoArr, "IndexError")
             ELSE LET ps == {Pos(h, <<iv[L]>>) : L \in 1..Len(iv)}
                  IN  Ret(WriteAt(hp, h.st, ps, [p \in ps |-> value]), h,
                          "none")

\* the parameters of scatter_ in declaration order
ScatterParams == <<"dim", "index", "value">>

\* Python's argument binding: positionals fill the parameters in order,
\* keywords go by name
BindArgs(params, pos, kw) ==
    [p \in {params[i] : i \in 1..Len(params)} |->
        LET i == CHOOSE k \in 1..Len(params) : params[k] = p
        IN  IF i <= Len(pos) THEN pos[i] ELSE kw[p]]

ScatterCall(hp, h, pos, kw) ==
    LET a == BindArgs(ScatterParams, pos, kw)
    IN  Scatter_(hp, h, a.dim, a.index, a.value)

\* lambda y: torch.zeros(10, dtype=torch.float)
\*               .scatter_(0, torch.tensor(y), value=1)
LambdaPositional(hp, y) ==
    LET z == Zeros(hp, <<NumLabels>>, "f32", "cpu")
        t == TensorScalar(z.heap, y)
    IN  ScatterCall(t.heap, z.arr, <<0, t.arr>>, [value |-> Fx(1)])

\* lambda y: torch.zeros(10, dtype=torch.float)
\*               .scatter_(dim=0, index=torch.tensor(y), value=1)
LambdaKeyword(hp, y) ==
    LET z == Zeros(hp, <<NumLabels>>, "f32", "cpu")
        t == TensorScalar(z.heap, y)
    IN  ScatterCall(t.heap, z.arr, <<>>,
                    [dim |-> 0, index |-> t.arr, value |-> Fx(1)])

\* the labels of the dataset
Labels == 0..(NumLabels - 1)

\* a kernel with no array yet
LabelInit ==
    /\ heap = <<>>
    /\ env = [x \in SNames |-> NoArr]
    /\ pc = "session"
    /\ mps = FALSE
    /\ err = "none"
    /\ ret = NoArr
    /\ old = <<>>
    /\ calls = <<>>

\* the dataset's target_transform applied to the label of a sample
TransformPositional ==
    \E y \in Labels :
        Do("positional", Len(calls) + 1, y, LambdaPositional(heap, y), TRUE)

\* the stand-alone target_transform applied to a label
TransformKeyword ==
    \E y \in Labels :
        Do("keyword", Len(calls) + 1, y, LambdaKeyword(heap, y), TRUE)

LabelNext == TransformPositional \/ TransformKeyword

LabelSpec == LabelInit /\ [][LabelNext]_vars

\* C15: the label transform maps every label y of 0..9 to the vector of
\* length 10 that is 1 at index y and 0 elsewhere (one non-zero element,
\* sum 1), and the positional and the keyword spelling give the same vector
C15_OneHot ==
    (LastIs("positional") \/ LastIs("keyword")) =>
        LET v == Flat(heap, env[N])
            y == Last.arg
        IN  /\ err = "none"
            /\ env[N].shape = <<10>>
            /\ Len(v) = 10
            /\ \A k \in 0..9 : v[k + 1] = IF k = y THEN One ELSE 0
            /\ Cardinality({k \in 1..Len(v) : v[k] # 0}) = 1
            /\ SumSeq(v) = One
            /\ \A i \in 1..N :
                   calls[i].arg = y => Flat(heap, env[i]) = v

C15_Witness ==
    /\ N = 2
    /\ calls[1] = [op |-> "positional", src |-> 1, arg |-> 3]
    /\ Last = [op |-> "keyword", src |-> 2, arg |-> 3]
    /\ err = "none"
    /\ env[1].st # env[2].st
    /\ Flat(heap, env[2])[4] = One
    /\ Flat(heap, env[1]) = Flat(heap, env[2])

(* ===================== properties: storage lifetime ==================== *)

\* the names bound to an array or an external buffer
Handles == {x \in DOMAIN env : IsArr(env[x])}

Twos5 == <<Fx(2), Fx(2), Fx(2), Fx(2), Fx(2)>>

\* C16: no handle refers to a released storage; rebinding n to np.ones(5)
\* releases nothing, t still referring to the storage t and n shared; that
\* storage is released when t is rebound by t = torch.from_numpy(n), and no
\* handle refers to it then
C16_ReleaseWhenUnreferenced ==
    /\ \A x \in Handles :
           /\ env[x].st \in 1..Len(heap)
           /\ heap[env[x].st].live
           /\ \A p \in PosSet(env[x]) : p < Len(heap[env[x].st].data)
    /\ \A i \in 1..Len(old) :
           (old[i].live /\ ~heap[i].live) =>
               \A x \in Handles : env[x].st # i
    /\ pc = "from_numpy" =>
           /\ env["n"].st # env["t"].st
           /\ heap[env["t"].st].live
           /\ heap[env["t"].st].data = Twos5
           /\ \A i \in 1..Len(old) : old[i].live => heap[i].live
    /\ pc = "np_add" =>
           /\ env["t"].st = env["n"].st
           /\ \E i \in 1..Len(old) :
                  /\ old[i].data = Twos5
                  /\ ~heap[i].live
                  /\ \A j \in 1..Len(old) : (old[j].live /\ ~heap[j].live) => j = i

C16_Witness ==
    /\ pc = "np_add"
    /\ env["t"].st = env["n"].st
    /\ \E i \in 1..Len(old) :
           old[i].live /\ old[i].data = Twos5 /\ ~heap[i].live
    /\ heap[env["n"].st].live

(* =================== properties: results and operands ================== *)

Row6566 == <<Fx(6), Fx(5), Fx(6), Fx(6)>>

\* the names bound to results of operations on tensor
Results == {"t1", "y1", "y2", "z1", "z2"}

\* C17: t1, y1, y2, z1 and z2 have storages of their own, so tensor.add_(5)
\* changes none of them: afterwards t1 still holds 1,0,1,1 (three times per
\* row) while tensor holds 6,5,6,6 in every row
C17_ResultsOwnStorage ==
    /\ Done("z2") =>
           \A x \in Results :
               /\ env[x].st # env["tensor"].st
               /\ \A y \in Results \ {x} : env[x].st # env[y].st
    /\ pc = "t_ones" =>
           \A x \in Results :
               /\ heap[env[x].st] = old[env[x].st]
               /\ Flat(heap, env[x]) = Flat(old, env[x])
    /\ Done("add_5") =>
           /\ \A i \in 0..3 :
                  /\ Flat(heap, Index(env["t1"], <<Ix(i)>>).arr) =
                         Row1011 \o Row1011 \o Row1011
                  /\ Flat(heap, Index(env["z1"], <<Ix(i)>>).arr) = Row1011
                  /\ Flat(heap, Index(env["z2"], <<Ix(i)>>).arr) = Row1011
                  /\ Flat(heap, Index(env["tensor"], <<Ix(i)>>).arr) = Row6566
           /\ Flat(heap, env["y1"]) = Fill(<<4, 4>>, Fx(3))
           /\ Flat(heap, env["y2"]) = Fill(<<4, 4>>, Fx(3))

C17_Witness ==
    /\ pc = "t_ones"
    /\ Flat(heap, Index(env["t1"], <<Ix(0)>>).arr) =
           Row1011 \o Row1011 \o Row1011
    /\ Flat(heap, Index(env["tensor"], <<Ix(0)>>).arr) = Row6566
    /\ Flat(old, Index(env["tensor"], <<Ix(0)>>).arr) = Row1011


\* the statements from t1 = torch.cat(...) to agg_item = agg.item()
Pure == At(pc) >= At("cat") /\ At(pc) <= At("agg_item")

\* one statement of the cells from cat to item(): tensor and every storage
\* stay as they are, except the destination of an out= call
C18_Step ==
    Pure =>
        /\ env'["tensor"] = env["tensor"]
        /\ heap'[env["tensor"].st] = heap[env["tensor"].st]
        /\ env'["tensor"].shape = <<4, 4>>
        /\ \A i \in 0..3 :
               Flat(heap', Index(env'["tensor"], <<Ix(i)>>).arr) = Row1011
        /\ \A i \in 1..Len(heap) :
               \/ heap'[i] = heap[i]
               \/ pc = "matmul_out" /\ i = env["y3"].st
               \/ pc = "mul_out" /\ i = env["z3"].st
        /\ pc = "matmul_out" => heap'[env["y3"].st] # heap[env["y3"].st]
        /\ pc = "mul_out" => heap'[env["z3"].st] # heap[env["z3"].st]

\* C18: concatenate, transpose, matmul, multiply (pure and out= forms), sum
\* and item leave their operand tensor unchanged, shape (4,4) and rows
\* [1,0,1,1]; the only storages written are those of the out= destinations
\* y3 and z3
C18_OperandUnchanged == [][C18_Step]_vars

C18_Witness ==
    /\ pc = "add_5"
    /\ env["tensor"].shape = <<4, 4>>
    /\ \A i \in 0..3 :
           Flat(heap, Index(env["tensor"], <<Ix(i)>>).arr) = Row1011
    /\ Flat(heap, env["y3"]) = Fill(<<4, 4>>, Fx(3))
    /\ \A i \in 0..3 : Flat(heap, Index(env["z3"], <<Ix(i)>>).arr) = Row1011
    /\ env["agg_item"].kind = "float"

(* --------------- the kernel building the neural network ---------------- *)

\* a device choice that takes the accelerator without asking
SelectMps(available) == "mps"

\* torch.device("mps") if torch.backends.mps.is_available()
\*     else torch.device("cpu")
SelectDevice(available) == IF available THEN "mps" ELSE "cpu"

\* the initial values of a parameter: samples of (-1, 1) in fresh host storage
Uniform(hp, sh, s) ==
    Fresh(hp, sh,
          [i \in 1..Prod(sh) |-> 2 * RandElem(s, i) - (RandDen - 1)],
          "f32", "cpu", "tensor")

\* nn.Linear(in, out): weight of shape (out, in) and bias of shape (out)
NewLinear(hp, in, out, sw, sb) ==
    LET w == Uniform(hp, <<out, in>>, sw)
        b == Uniform(w.heap, <<out>>, sb)
    IN  [heap |-> b.heap, W |-> w.arr, b |-> b.arr]

RECURSIVE MoveAll(_, _, _, _)
\* Module.to(dev): every parameter moved with to(dev), in order
MoveAll(hp, hs, dev, avail) ==
    IF hs = <<>> THEN [heap |-> hp, arrs |-> <<>>, err |-> "none"]
    ELSE LET r == To(hp, Head(hs), dev, avail)
         IN  IF r.err # "none"
             THEN [heap |-> hp, arrs |-> <<>>, err |-> r.err]
             ELSE LET rest == MoveAll(r.heap, Tail(hs), dev, avail)
                  IN  [heap |-> rest.heap, arrs |-> <<r.arr>> \o rest.arrs,
                       err |-> rest.err]

\* torch.rand(shape, device=dev)
RandOn(hp, sh, dev, avail, s) ==
    IF dev \notin avail THEN Ret(hp, NoArr, "DeviceError")
    ELSE Rand(hp, sh, "f32", dev, s)

\* Linear.forward: x @ W^T + b, all three on one device
LinearForward(hp, x, W, b) ==
    IF hp[x.st].dev # hp[W.st].dev \/ hp[x.st].dev # hp[b.st].dev
    THEN Ret(hp, NoArr, "DeviceError")
    ELSE IF x.shape[2] # W.shape[2] THEN Ret(hp, NoArr, "ShapeError")
    ELSE LET xw == MatmulData(hp, x, Transpose(W))
             fb == Flat(hp, b)
         IN  Fresh(hp, <<x.shape[1], W.shape[1]>>,
                   [L \in 1..Len(xw) |-> xw[L] + fb[((L - 1) % W.shape[1]) + 1]],
                   x.dtype, hp[x.st].dev, "tensor")

\* nn.ReLU(): max(0, v) of every element, in fresh storage
ReLU(hp, x) ==
    Fresh(hp, x.shape,
          [L \in 1..Numel(x) |->
              IF Flat(hp, x)[L] > 0 THEN Flat(hp, x)[L] ELSE 0],
          x.dtype, hp[x.st].dev, "tensor")

RECURSIVE Sequential(_, _, _)
\* nn.Sequential: the layers applied in order
Sequential(hp, x, layers) ==
    IF layers = <<>> THEN Ret(hp, x, "none")
    ELSE LET l == Head(layers)
             r == IF l.k = "linear" THEN LinearForward(hp, x, l.W, l.b)
                  ELSE ReLU(hp, x)
         IN  IF r.err # "none" THEN r
             ELSE Sequential(r.heap, r.arr, Tail(layers))

\* NeuralNetwork.forward on the parameters bound in e
Forward(hp, e, x) ==
    LET f == Flatten(hp, x)
    IN  IF f.err # "none" THEN f
        ELSE Sequential(f.heap, f.arr,
                 <<[k |-> "linear", W |-> e["W1"], b |-> e["b1"]],
                   [k |-> "relu"],
                   [k |-> "linear", W |-> e["W2"], b |-> e["b2"]],
                   [k |-> "relu"],
                   [k |-> "linear", W |-> e["W3"], b |-> e["b3"]]>>)


BNames == {"device", "W1", "b1", "W2", "b2", "W3", "b3", "X", "logits"}

Params == <<"W1", "b1", "W2", "b2", "W3", "b3">>

BuildInit ==
    /\ heap = <<>>
    /\ env = [x \in BNames |-> NoArr]
    /\ pc = "get_device"
    /\ mps \in BOOLEAN
    /\ err = "none"
    /\ ret = NoArr
    /\ old = <<>>
    /\ calls = <<>>

\* device = torch.device("mps") if ... else torch.device("cpu")
Build_device ==
    Bind("get_device", "linear1", "device",
         Ret(heap, [kind |-> "device", type |-> SelectDevice(mps)], "none"))

\* one nn.Linear(in, out) of NeuralNetwork.__init__
Build_linear(at, nxt, wn, bn, in, out) ==
    \E sw \in Seeds, sb \in Seeds :
        LET l == NewLinear(heap, in, out, sw, sb)
        IN  /\ pc = at
            /\ env' = [env EXCEPT ![wn] = l.W, ![bn] = l.b]
            /\ heap' = Collect(l.heap, env')
            /\ old' = heap
            /\ err' = "none"
            /\ ret' = NoArr
            /\ pc' = nxt
            /\ UNCHANGED <<mps, calls>>

\* nn.Linear(28*28, 512)
Build_linear1 ==
    Build_linear("linear1", "linear2", "W1", "b1", ImgSide * ImgSide, Hidden)

\* nn.Linear(512, 512)
Build_linear2 == Build_linear("linear2", "linear3", "W2", "b2", Hidden, Hidden)

\* nn.Linear(512, 10)
Build_linear3 == Build_linear("linear3", "model_to", "W3", "b3", Hidden, NumLabels)

\* model = NeuralNetwork().to(device)
Build_to ==
    LET r == MoveAll(heap, [i \in 1..Len(Params) |-> env[Params[i]]],
                     env["device"].type, Avail)
    IN  /\ pc = "model_to"
        /\ env' = IF r.err # "none" THEN env
                  ELSE [x \in BNames |->
                           IF \E i \in 1..Len(Params) : Params[i] = x
                           THEN r.arrs[CHOOSE i \in 1..Len(Params) : Params[i] = x]
                           ELSE env[x]]
        /\ heap' = Collect(r.heap, env')
        /\ old' = heap
        /\ err' = r.err
        /\ ret' = NoArr
        /\ pc' = IF r.err = "none" THEN "rand_X" ELSE "raised"
        /\ UNCHANGED <<mps, calls>>

\* X = torch.rand(1, 28, 28, device=device)
Build_X ==
    \E s \in Seeds :
        Bind("rand_X", "forward", "X",
             RandOn(heap, <<1, ImgSide, ImgSide>>, env["device"].type, Avail, s))

\* logits = model(X)
Build_logits == Bind("forward", "built", "logits", Forward(heap, env, env["X"]))

BuildNext ==
    \/ Build_device \/ Build_linear1 \/ Build_linear2 \/ Build_linear3
    \/ Build_to \/ Build_X \/ Build_logits

BuildSpec == BuildInit /\ [][BuildNext]_vars

(* ==================== properties: devices of the model ================= *)

\* C19: the device is the accelerator exactly when it is reported available
\* and the host otherwise; after model.to(device) every parameter is on it,
\* X is created on it, and model(X) returns logits on it: no statement
\* raises, so no operation mixes devices or asks for an unavailable one
C19_OneDevice ==
    /\ pc # "raised"
    /\ err = "none"
    /\ pc # "get_device" =>
           /\ env["device"].type = "mps" <=> mps
           /\ env["device"].type = "cpu" <=> ~mps
           /\ env["device"].type \in Avail
    /\ pc \in {"rand_X", "forward", "built"} =>
           \A x \in {"W1", "b1", "W2", "b2", "W3", "b3"} :
               heap[env[x].st].live /\ heap[env[x].st].dev = env["device"].type
    /\ pc \in {"forward", "built"} =>
           /\ heap[env["X"].st].dev = env["device"].type
           /\ env["X"].shape[1] = 1
    /\ pc = "built" =>
           /\ env["logits"].shape = <<1, 10>>
           /\ heap[env["logits"].st].dev = env["device"].type
           /\ \A i \in 1..Len(heap) :
                  heap[i].live => heap[i].dev = env["device"].type

C19_Witness ==
    /\ pc = "built"
    /\ mps
    /\ env["device"].type = "mps"
    /\ heap[env["W1"].st].dev = "mps"
    /\ heap[env["X"].st].dev = "mps"
    /\ heap[env["logits"].st].dev = "mps"
    /\ err = "none"

====
